---- MODULE Spec2Model ----
(***************************************************************************)
(* A model of quiz.py: a multiplayer estimation quiz served by one         *)
(* asyncio handler, serve(q).  Every browser event starts one run of the   *)
(* handler; runs interleave only at their awaits (the page saves and the   *)
(* sleeps of the three polling loops).  The scoring functions              *)
(* (Answer.correct, Answer.score, results_card) are operators, computed    *)
(* the way the Python code computes them.                                  *)
(***************************************************************************)
EXTENDS Integers, Sequences, FiniteSets, Bags, TLC

(***************************************************************************)
(* Bounds of the model.                                                    *)
(***************************************************************************)
\* browsers (Wave clients) that may connect
NumClients == 3
\* questions of the quiz that the games of the model play
NumQuestions == 2
\* handler runs that may be suspended in a polling loop at one time
MaxTasks == 3
\* clicks on the Quiz tab by clients that have a name
MaxNavigations == 1

(***************************************************************************)
(* Program constants.                                                      *)
(***************************************************************************)
\* State.total_num_players
total_num_players == 2

\* the answers of qs, in order
qs == <<437, 150, 38, 616325, 950, 9, 73, 34, 109, 19>>

\* QUESTIONS = {i: Question(num=i, **q) for i, q in enumerate(qs)}, cut to the
\* first NumQuestions questions.  Python's key i is index i + 1 here.
QUESTIONS == SubSeq(qs, 1, NumQuestions)

(***************************************************************************)
(* Text.  A Python str is a sequence of one-character strings.             *)
(***************************************************************************)
Digits == <<"0", "1", "2", "3", "4", "5", "6", "7", "8", "9">>

IsDigit(ch) == \E i \in 1..Len(Digits) : Digits[i] = ch

DigitValue(ch) == (CHOOSE i \in 1..Len(Digits) : Digits[i] = ch) - 1

RECURSIVE Strip(_)
\* str.strip() as int() applies it: white space off both ends
Strip(s) ==
    IF s = <<>> THEN s
    ELSE IF Head(s) = " " THEN Strip(Tail(s))
    ELSE IF s[Len(s)] = " " THEN Strip(SubSeq(s, 1, Len(s) - 1))
    ELSE s

\* the digits of an integer literal: digits, single underscores between them
IsDigitString(s) ==
    /\ s # <<>>
    /\ IsDigit(s[1])
    /\ IsDigit(s[Len(s)])
    /\ \A i \in 1..Len(s) : IsDigit(s[i]) \/ s[i] = "_"
    /\ \A i \in 1..(Len(s) - 1) : ~(s[i] = "_" /\ s[i + 1] = "_")

RECURSIVE DigitsValue(_, _)
\* the value of a digit string, read left to right, underscores skipped
DigitsValue(s, acc) ==
    IF s = <<>> THEN acc
    ELSE IF Head(s) = "_" THEN DigitsValue(Tail(s), acc)
    ELSE DigitsValue(Tail(s), 10 * acc + DigitValue(Head(s)))

\* int(text): [ok |-> TRUE, val |-> n], or ok = FALSE where Python raises
\* ValueError
int(text) ==
    LET s == Strip(text)
        signed == s # <<>> /\ (s[1] = "-" \/ s[1] = "+")
        body == IF signed THEN Tail(s) ELSE s
    IN  IF IsDigitString(body)
        THEN [ok |-> TRUE,
              val |-> IF signed /\ s[1] = "-"
                      THEN 0 - DigitsValue(body, 0)
                      ELSE DigitsValue(body, 0)]
        ELSE [ok |-> FALSE, val |-> 0]

(***************************************************************************)
(* Answer.  [lower |-> text, upper |-> text]                               *)
(***************************************************************************)
\* Within with the upper bound left out of the interval
WithinBelow(lower, upper, answer) ==
    IF ~lower.ok THEN FALSE
    ELSE IF ~upper.ok THEN FALSE
    ELSE IF lower.val <= answer /\ answer < upper.val THEN TRUE
    ELSE FALSE

\* the with block of Answer.correct once the bounds are parsed; an exception
\* (here: of int) is suppressed and the function falls through to return False
Within(lower, upper, answer) ==
    IF ~lower.ok THEN FALSE
    ELSE IF ~upper.ok THEN FALSE
    ELSE IF lower.val <= answer /\ answer <= upper.val THEN TRUE
    ELSE FALSE

\* Answer.correct
correct(self, answer) == Within(int(self.lower), int(self.upper), answer)

\* Python's a // b: the floor of a / b; b is not 0
FloorDiv(a, b) ==
    IF (a < 0) = (b < 0)
    THEN (IF a < 0 THEN 0 - a ELSE a) \div (IF b < 0 THEN 0 - b ELSE b)
    ELSE 0 - (((IF a < 0 THEN 0 - a ELSE a) + (IF b < 0 THEN 0 - b ELSE b) - 1)
              \div (IF b < 0 THEN 0 - b ELSE b))

\* math.ceil of an int: the int itself
ceil(n) == n

\* Answer.score once the assert is evaluated and the bounds are parsed:
\* [raised |-> FALSE, val |-> n], or raised = TRUE where the assert fails
\* (AssertionError) or lower is 0 (ZeroDivisionError)
Ratio(asserted, lower, upper) ==
    IF ~asserted THEN [raised |-> TRUE, val |-> 0]
    ELSE IF lower.val = 0 THEN [raised |-> TRUE, val |-> 0]
    ELSE [raised |-> FALSE, val |-> ceil(FloorDiv(upper.val, lower.val))]

\* Answer.score
score(self, answer) ==
    Ratio(correct(self, answer), int(self.lower), int(self.upper))

(***************************************************************************)
(* results_card.  Python's numbers: an int n is Num(n, 1), the float       *)
(* 2 ** -k * m is Num(m, 2^k) (exact for the values of the model), and     *)
(* math.inf is Inf.                                                        *)
(***************************************************************************)
RECURSIVE Pow2(_)
\* 2 ** n for n >= 0
Pow2(n) == IF n <= 0 THEN 1 ELSE 2 * Pow2(n - 1)

Num(n, d) == [inf |-> FALSE, num |-> n, den |-> d]

Inf == [inf |-> TRUE, num |-> 0, den |-> 1]

\* a < b
Less(a, b) ==
    IF a.inf THEN FALSE
    ELSE IF b.inf THEN TRUE
    ELSE a.num * b.den < b.num * a.den

\* a == b
Equal(a, b) ==
    IF a.inf \/ b.inf THEN a.inf = b.inf
    ELSE a.num * b.den = b.num * a.den

\* min(a, b)
min(a, b) == IF Less(b, a) THEN b ELSE a

\* State.game_finished, total_num_questions being len(QUESTIONS)
game_finished(QS, question) == question = Len(QS)

\* Credit with "score += answer.score(q.answer)", the "- 1" forgotten
CreditWhole(acc, s) ==
    IF s.raised THEN [acc EXCEPT !.raised = TRUE]
    ELSE [acc EXCEPT !.correct = @ + 1, !.score = @ + s.val]

\* lines 137-138: correct += 1; score += answer.score(q.answer) - 1, which
\* raises when answer.score (s) raises; acc = [raised, correct, score]
Credit(acc, s) ==
    IF s.raised THEN [acc EXCEPT !.raised = TRUE]
    ELSE [acc EXCEPT !.correct = @ + 1, !.score = @ + (s.val - 1)]

\* the one value of a set of one value: Value({F(v) : v \in {e}}) is F(e),
\* with e evaluated once
Value(S) == CHOOSE v \in S : TRUE

RECURSIVE Mark(_, _, _, _)
\* the loop "for idx, answer in enumerate(info.answers)" from idx on.
\* QUESTIONS[idx] raises KeyError when idx is no key.
Mark(QS, answers, idx, acc) ==
    IF acc.raised \/ idx >= Len(answers) THEN acc
    ELSE IF idx + 1 > Len(QS) THEN [acc EXCEPT !.raised = TRUE]
    ELSE IF correct(answers[idx + 1], QS[idx + 1])
    THEN Value({Mark(QS, answers, idx + 1, a) :
                   a \in {Credit(acc, s) :
                             s \in {score(answers[idx + 1], QS[idx + 1])}}})
    ELSE Mark(QS, answers, idx + 1, acc)

\* total_score = 2 ** (state.question - correct) * (10 + score)
TotalScore(question, m) ==
    IF question - m.correct >= 0
    THEN Num(Pow2(question - m.correct) * (10 + m.score), 1)
    ELSE Num(10 + m.score, Pow2(m.correct - question))

\* Rank with the "elif total_score == min_score" branch forgotten
RankFirst(player, correct_count, total_score, acc) ==
    [raised |-> FALSE,
     rows |-> Append(acc.rows, [player |-> player,
                                correct |-> correct_count,
                                total_score |-> total_score]),
     winners |-> IF Less(total_score, acc.min_score) THEN <<player>>
                 ELSE acc.winners,
     min_score |-> min(acc.min_score, total_score)]

\* lines 140-146 for one player; acc = [raised, rows, winners, min_score]
Rank(player, correct_count, total_score, acc) ==
    [raised |-> FALSE,
     rows |-> Append(acc.rows, [player |-> player,
                                correct |-> correct_count,
                                total_score |-> total_score]),
     winners |-> IF Less(total_score, acc.min_score) THEN <<player>>
                 ELSE IF Equal(total_score, acc.min_score)
                      THEN Append(acc.winners, player)
                 ELSE acc.winners,
     min_score |-> min(acc.min_score, total_score)]

\* lines 139-146 for one player whose answers are marked as m
Scored(player, question, m, acc) ==
    IF m.raised THEN [acc EXCEPT !.raised = TRUE]
    ELSE Rank(player, m.correct, TotalScore(question, m), acc)

\* the body of "for player, info in state.players.items()" for one player
Row(QS, player, answers, question, acc) ==
    Value({Scored(player, question, m, acc) :
              m \in {Mark(QS, answers, 0,
                           [raised |-> FALSE, correct |-> 0, score |-> 0])}})

RECURSIVE Rows(_, _, _, _, _, _)
\* the loop over state.players.items(), in insertion order, from player i on
Rows(QS, ps, ans, question, i, acc) ==
    IF acc.raised \/ i > Len(ps) THEN acc
    ELSE Value({Rows(QS, ps, ans, question, i + 1, a) :
                   a \in {Row(QS, ps[i], ans[ps[i]], question, acc)}})

\* what results_card shows of r, the outcome of its loop: the rows of the
\* table, and the winners when the game is finished
Shown(r, finished) ==
    [raised |-> r.raised,
     rows |-> IF r.raised THEN <<>> ELSE r.rows,
     winners |-> IF r.raised THEN <<>> ELSE r.winners,
     names_winners |-> ~r.raised /\ finished]

\* results_card() over state.players (keys ps in insertion order, answers
\* ans) and state.question; raised = TRUE when it raises
results_card(QS, ps, ans, question) ==
    Value({Shown(r, game_finished(QS, question)) :
              r \in {Rows(QS, ps, ans, question, 1,
                          [raised |-> FALSE, rows |-> <<>>, winners |-> <<>>,
                           min_score |-> Inf])}})

(***************************************************************************)
(* The game.  State is the module-level State() of quiz.py; each browser   *)
(* is a Wave client with its own q.client and its own page.                *)
(***************************************************************************)
VARIABLES
    players,           \* the keys of state.players, in insertion order
    answers,           \* state.players[name].answers, <<>> for a name not a key
    question,          \* state.question
    answered,          \* state.answered
    waiting_finished,  \* state.waiting_finished
    client_name,       \* q.client.name of each client, NoName when unset
    form,              \* q.page["form"] as last saved to each client's browser
    tasks,             \* the handler runs suspended in a polling loop (a bag)
    navigations,       \* the clicks on the Quiz tab so far (history)
    last,              \* the handler step taken last (history)
    call               \* the scoring call made last (specification SpecScore)

vars == <<players, answers, question, answered, waiting_finished,
          client_name, form, tasks, navigations, last, call>>

state == <<players, answers, question, answered, waiting_finished>>

Clients == 1..NumClients

\* the names typed into the intro form
NameList == <<"ann", "bob", "cy">>

Names == {NameList[i] : i \in 1..Len(NameList)}

\* the empty text, which is falsy: no name typed, q.client.name not set
NoName == ""

Keys(ps) == {ps[i] : i \in 1..Len(ps)}

\* what a client types into the name box: nothing, a name that is a key of
\* state.players, or a name that is none.  serve only tests whether the text
\* is a key, so one new name stands for all: the first of NameList.
Typed(ps) ==
    {NoName} \cup Keys(ps)
    \cup {NameList[i] : i \in {j \in 1..Len(NameList) :
                                  /\ NameList[j] \notin Keys(ps)
                                  /\ \A k \in 1..(j - 1) : NameList[k] \in Keys(ps)}}

Text(a, b) == [lower |-> a, upper |-> b]

\* the intervals typed into a question form: [100, 500] and [0, 500]
GameAnswers ==
    { Text(<<"1", "0", "0">>, <<"5", "0", "0">>),
      Text(<<"0">>, <<"5", "0", "0">>) }

\* the cards a form shows; num is the question's number on a question card
Card(kind) == [card |-> kind, num |-> 0]

QuestionCard(num) == [card |-> "question", num |-> num]

\* State.initialized
initialized(ps) == Len(ps) = total_num_players

\* a run suspended at the await of a polling loop: "players" (lines 232-242),
\* "answers" (285-295) or "resume" (273-279); round is state.question as the
\* run found it on entry
Task(c, loop, round) == [client |-> c, loop |-> loop, round |-> round]

\* a step of a run: what it did, whether it saved a card; the client and the
\* round of its run (0, 0 where the step ends no run with lines 298-308)
Step(op, c, round, rendered) ==
    [op |-> op, client |-> c, round |-> round, rendered |-> rendered]

Init ==
    /\ players = <<>>
    /\ answers = [n \in Names |-> <<>>]
    /\ question = 0
    /\ answered = 0
    /\ waiting_finished = 0
    /\ client_name = [c \in Clients |-> NoName]
    /\ form = [c \in Clients |-> Card("none")]
    /\ tasks = EmptyBag
    /\ navigations = 0
    /\ last = Step("start", 0, 0, FALSE)
    /\ call = [op |-> "none"]

\* lines 298-306 over state.question = q, results_card raising or not: the
\* card put on the form, or raised = TRUE when results_card or
\* QUESTIONS[state.question] raises and the run ends before the page is saved
Choose(q, results_raised) ==
    IF game_finished(QUESTIONS, q)
    THEN [raised |-> results_raised, card |-> Card("finished")]
    ELSE IF q + 1 > Len(QUESTIONS)
    THEN [raised |-> TRUE, card |-> Card("none")]
    ELSE [raised |-> results_raised, card |-> QuestionCard(q)]

NextCard(ps, ans, q) ==
    Value({Choose(q, r.raised) : r \in {results_card(QUESTIONS, ps, ans, q)}})

\* line 308 for client c: the form is saved unless the run raised (n)
Save(c, op, round, n) ==
    /\ form' = IF n.raised THEN form ELSE [form EXCEPT ![c] = n.card]
    /\ last' = Step(op, c, round, ~n.raised)

\* lines 298-308 for client c, run on the state the step leaves
Show(c, op, round) ==
    \E n \in {NextCard(players', answers', question')} : Save(c, op, round, n)

\* a polling loop renders its waiting card, saves and sleeps
Suspend(c, kind, op) ==
    /\ form' = [form EXCEPT ![c] = Card(kind)]
    /\ last' = Step(op, 0, 0, FALSE)

(***************************************************************************)
(* serve(q), one action per event and per wake-up of a suspended run.  A   *)
(* browser sends the events its page offers: the intro form's button, a    *)
(* question card's button, the tabs, a page load.                          *)
(***************************************************************************)

\* the first page load of a client, which has no q.client.name: no intro, no
\* answer; lines 244-259 show the intro screen (as does every later load
\* while the client has no name)
Load(c) ==
    /\ client_name[c] = NoName
    /\ form[c].card = "none"
    /\ form'= [form EXCEPT ![c] = Card("intro")]
    /\ last' = Step("load", 0, 0, TRUE)
    /\ UNCHANGED <<state, client_name, tasks, navigations, call>>

\* the Quiz tab (or a reload) from a client with a name: no intro, no
\* answer; lines 260-262 fall through to lines 298-308
Navigate(c) ==
    /\ client_name[c] # NoName
    /\ navigations < MaxNavigations
    /\ navigations' = navigations + 1
    /\ UNCHANGED <<state, client_name, tasks, call>>
    /\ Show(c, "navigate", question)

\* the Help tab: lines 218-223 set the help card, which is no part of the
\* state here, and nothing else
Help(c) ==
    /\ form[c].card # "none"
    /\ UNCHANGED vars

\* IsNew without "not in state.players"
IsTyped(text, ps) == text # NoName

\* line 228: "q.args.text and q.args.text not in state.players"
IsNew(text, ps) == text # NoName /\ text \notin Keys(ps)

\* the intro form's button with text in the name box: lines 227-242, then
\* 244-259 or 260-308
Join(c, text) ==
    /\ form[c].card = "intro"
    /\ IF IsNew(text, players)
       THEN /\ client_name' = [client_name EXCEPT ![c] = text]
            /\ players' = Append(players, text)
            /\ UNCHANGED <<answers, question, answered, waiting_finished,
                           navigations, call>>
            /\ IF ~initialized(players')
               THEN /\ BagCardinality(tasks) < MaxTasks
                    /\ tasks' = tasks (+) SetToBag({Task(c, "players", question)})
                    /\ Suspend(c, "waiting_players", "join")
               ELSE /\ UNCHANGED tasks
                    /\ Show(c, "join", question)
       ELSE /\ UNCHANGED <<state, client_name, tasks, navigations, call>>
            /\ IF client_name[c] = NoName
               THEN /\ form' = [form EXCEPT ![c] = Card("intro")]
                    /\ last' = Step(IF text = NoName THEN "join_empty"
                                    ELSE "join_known", 0, 0, TRUE)
               ELSE Show(c, "join_known", question)

\* line 266 with state.answered = n: this answer is the round's last
IsLast(n) == n + 1 = total_num_players

\* Advanced with the increment forgotten
NotAdvanced(q) == q

\* line 267: state.question += 1
Advanced(q) == q + 1

\* AwaitsAnswers one short: a run leaves while one answer is missing
AwaitsAnswersShort(n) == n + 1 < total_num_players

\* line 285 with state.answered = n: the other players' answers are awaited
AwaitsAnswers(n) == n # total_num_players

\* line 273 with state.waiting_finished = n: the other runs have not all left
\* their loop
AwaitsResume(n) == n # total_num_players

\* Reset with line 282 forgotten
ResetAnswered ==
    /\ answered' = 0
    /\ waiting_finished' = waiting_finished

\* lines 281-282
Reset ==
    /\ answered' = 0
    /\ waiting_finished' = 0

\* a question card's button with the two bounds: lines 262-296, then 298-308
Submit(c, a) ==
    /\ form[c].card = "question"
    /\ answers' = [answers EXCEPT ![client_name[c]] = Append(@, a)]
    /\ UNCHANGED <<players, client_name, navigations, call>>
    /\ IF IsLast(answered)
       THEN /\ question' = Advanced(question)
            /\ IF AwaitsResume(waiting_finished + 1)
               THEN /\ answered' = answered + 1
                    /\ waiting_finished' = waiting_finished + 1
                    /\ BagCardinality(tasks) < MaxTasks
                    /\ tasks' = tasks (+) SetToBag({Task(c, "resume", question)})
                    /\ Suspend(c, "waiting_resume", "submit_last")
               ELSE /\ Reset
                    /\ UNCHANGED tasks
                    /\ Show(c, "reset", question)
       ELSE /\ answered' = answered + 1
            /\ UNCHANGED question
            /\ IF AwaitsAnswers(answered + 1)
               THEN /\ UNCHANGED waiting_finished
                    /\ BagCardinality(tasks) < MaxTasks
                    /\ tasks' = tasks (+) SetToBag({Task(c, "answers", question)})
                    /\ Suspend(c, "waiting_answers", "submit")
               ELSE /\ waiting_finished' = waiting_finished + 1
                    /\ UNCHANGED tasks
                    /\ Show(c, "release", question)

\* a run suspended in "while not state.initialized" wakes: lines 232-242
PollPlayers(t) ==
    /\ t.loop = "players"
    /\ UNCHANGED <<state, client_name, navigations, call>>
    /\ IF ~initialized(players)
       THEN /\ UNCHANGED tasks
            /\ Suspend(t.client, "waiting_players", "poll")
       ELSE /\ tasks' = tasks (-) SetToBag({t})
            /\ Show(t.client, "admit", t.round)

\* PollAnswers with line 296 inside the loop: every wake-up counts
PollAnswersCounting(t) ==
    /\ t.loop = "answers"
    /\ UNCHANGED <<players, answers, question, client_name, navigations, call>>
    /\ waiting_finished' = waiting_finished + 1
    /\ UNCHANGED answered
    /\ IF AwaitsAnswers(answered)
       THEN /\ UNCHANGED tasks
            /\ Suspend(t.client, "waiting_answers", "poll")
       ELSE /\ tasks' = tasks (-) SetToBag({t})
            /\ Show(t.client, "release", t.round)

\* a run suspended in "while state.answered != state.total_num_players"
\* wakes: lines 285-296
PollAnswers(t) ==
    /\ t.loop = "answers"
    /\ UNCHANGED <<players, answers, question, client_name, navigations, call>>
    /\ IF AwaitsAnswers(answered)
       THEN /\ UNCHANGED <<answered, waiting_finished, tasks>>
            /\ Suspend(t.client, "waiting_answers", "poll")
       ELSE /\ waiting_finished' = waiting_finished + 1
            /\ UNCHANGED answered
            /\ tasks' = tasks (-) SetToBag({t})
            /\ Show(t.client, "release", t.round)

\* a run suspended in "while state.waiting_finished !=
\* state.total_num_players" wakes: lines 273-282
PollResume(t) ==
    /\ t.loop = "resume"
    /\ UNCHANGED <<players, answers, question, client_name, navigations, call>>
    /\ IF AwaitsResume(waiting_finished)
       THEN /\ UNCHANGED <<answered, waiting_finished, tasks>>
            /\ Suspend(t.client, "waiting_resume", "poll")
       ELSE /\ Reset
            /\ tasks' = tasks (-) SetToBag({t})
            /\ Show(t.client, "reset", t.round)

Poll(t) == PollPlayers(t) \/ PollAnswers(t) \/ PollResume(t)

\* the steps of a game played through the cards: joins, answers, wake-ups
Play ==
    \/ \E c \in Clients : Load(c)
    \/ \E c \in Clients, text \in Typed(players) : Join(c, text)
    \/ \E c \in Clients, a \in GameAnswers : Submit(c, a)
    \/ \E t \in BagToSet(tasks) : Poll(t)

Next ==
    \/ Play
    \/ \E c \in Clients : Navigate(c)
    \/ \E c \in Clients : Help(c)

\* every event of every client
Spec == Init /\ [][Next]_vars

\* players who only use the cards shown to them: no tab, no reload
SpecPlay == Init /\ [][Play]_vars

\* client c's run suspended in a polling loop wakes (a client that uses the
\* cards alone has one run at most)
Wake(c) == \E t \in BagToSet(tasks) : t.client = c /\ Poll(t)

\* asyncio wakes every sleeping run again (await q.sleep), and a player
\* shown a question card answers it
Fairness ==
    /\ \A c \in Clients : WF_vars(Wake(c))
    /\ \A c \in Clients : WF_vars(\E a \in GameAnswers : Submit(c, a))

\* SpecPlay where no run sleeps for ever and no player leaves a question
\* unanswered
SpecFair == SpecPlay /\ Fairness

(***************************************************************************)
(* The scoring functions, called on inputs of bounded sets.                *)
(***************************************************************************)
\* recorded answers in one table handed to results_card
MaxRecorded == 4

Chars(a, b, c) == <<a, b, c>>

\* texts typed as a bound, each with what Python's int() makes of it
Literals ==
    { [text |-> <<"1">>, int |-> TRUE, val |-> 1],
      [text |-> <<"0">>, int |-> TRUE, val |-> 0],
      [text |-> <<"5", "0">>, int |-> TRUE, val |-> 50],
      [text |-> Chars("1", "0", "0"), int |-> TRUE, val |-> 100],
      [text |-> Chars("1", "5", "0"), int |-> TRUE, val |-> 150],
      [text |-> Chars("1", "5", "5"), int |-> TRUE, val |-> 155],
      [text |-> Chars("2", "0", "0"), int |-> TRUE, val |-> 200],
      [text |-> Chars("2", "1", "0"), int |-> TRUE, val |-> 210],
      [text |-> Chars("5", "0", "0"), int |-> TRUE, val |-> 500],
      [text |-> <<"-", "7">>, int |-> TRUE, val |-> 0 - 7],
      [text |-> Chars("+", "5", "0"), int |-> TRUE, val |-> 50],
      [text |-> Chars(" ", "5", "0"), int |-> TRUE, val |-> 50],
      [text |-> Chars("2", "_", "0"), int |-> TRUE, val |-> 20],
      [text |-> <<>>, int |-> FALSE, val |-> 0],
      [text |-> <<"x">>, int |-> FALSE, val |-> 0],
      [text |-> <<"-">>, int |-> FALSE, val |-> 0],
      [text |-> Chars("1", ".", "5"), int |-> FALSE, val |-> 0],
      [text |-> Chars("5", " ", "0"), int |-> FALSE, val |-> 0],
      [text |-> <<"5", "_">>, int |-> FALSE, val |-> 0] }

BoundTexts == {l.text : l \in Literals}

\* the true answers the functions are called with: the help text's example
\* and the quiz's own
TrueValues == {155} \cup {QUESTIONS[i] : i \in 1..Len(QUESTIONS)}

\* the question sets results_card is called over: the one question of the
\* help text's example, and the quiz's own
QuestionSets == {<<155>>, QUESTIONS}

\* the intervals recorded in a table: [50, 210], [100, 500], [1, 100],
\* [0, 500]
TableAnswers ==
    { Text(<<"5", "0">>, Chars("2", "1", "0")),
      Text(Chars("1", "0", "0"), Chars("5", "0", "0")),
      Text(<<"1">>, Chars("1", "0", "0")),
      Text(<<"0">>, Chars("5", "0", "0")) }

SeqsUpTo(S, n) == UNION {[1..k -> S] : k \in 0..n}

RECURSIVE Recorded(_, _)
\* the answers recorded in ans by the players ps
Recorded(ps, ans) ==
    IF ps = <<>> THEN 0 ELSE Len(ans[Head(ps)]) + Recorded(Tail(ps), ans)

\* the tables over the players ps and n questions: state.players of at most
\* MaxRecorded answers, no player with more than n
Tables(ps, n) ==
    {ans \in [Names -> SeqsUpTo(TableAnswers, n)] :
        /\ \A name \in Names \ Keys(ps) : ans[name] = <<>>
        /\ Recorded(ps, ans) <= MaxRecorded}

CallCorrect ==
    /\ call.op = "none"
    /\ \E lower \in BoundTexts, upper \in BoundTexts, answer \in TrueValues :
          call' = [op |-> "correct", self |-> Text(lower, upper),
                   answer |-> answer,
                   result |-> correct(Text(lower, upper), answer)]
    /\ UNCHANGED <<state, client_name, form, tasks, navigations, last>>

CallScore ==
    /\ call.op = "none"
    /\ \E lower \in BoundTexts, upper \in BoundTexts, answer \in TrueValues :
          call' = [op |-> "score", self |-> Text(lower, upper),
                   answer |-> answer,
                   result |-> score(Text(lower, upper), answer)]
    /\ UNCHANGED <<state, client_name, form, tasks, navigations, last>>

CallResults ==
    /\ call.op = "none"
    /\ \E QS \in QuestionSets, n \in 0..Len(NameList), q \in 0..NumQuestions :
          /\ q <= Len(QS)
          /\ \E ans \in Tables(SubSeq(NameList, 1, n), Len(QS)) :
                call' = [op |-> "results_card", QS |-> QS,
                         ps |-> SubSeq(NameList, 1, n), ans |-> ans,
                         question |-> q,
                         result |-> results_card(QS, SubSeq(NameList, 1, n),
                                                 ans, q)]
    /\ UNCHANGED <<state, client_name, form, tasks, navigations, last>>

Score == CallCorrect \/ CallScore \/ CallResults

\* one call of a scoring function on any of the inputs
SpecScore == Init /\ [][Score]_vars

(***************************************************************************)
(* Properties of the scoring functions (specification SpecScore).          *)
(***************************************************************************)
\* what Python's int() makes of a text of BoundTexts
Meaning(text) == CHOOSE l \in Literals : l.text = text

\* the interval [lower, upper] of an answer whose bounds are integers
IsInterval(a) == Meaning(a.lower).int /\ Meaning(a.upper).int

Lower(a) == Meaning(a.lower).val

Upper(a) == Meaning(a.upper).val

Contains(a, v) == IsInterval(a) /\ Lower(a) <= v /\ v <= Upper(a)

\* C7: Answer.correct(trueValue) returns true exactly when both bounds parse
\* as integers and lower <= trueValue <= upper; so it returns false when
\* trueValue < lower or trueValue > upper (every reversed interval) and
\* false, not an exception, when a bound is no integer.
C7_CorrectIffContains ==
    call.op = "correct" =>
        /\ call.result \in BOOLEAN
        /\ call.result = Contains(call.self, call.answer)
        /\ (~IsInterval(call.self) => call.result = FALSE)
        /\ (IsInterval(call.self) /\ Lower(call.self) > Upper(call.self)
                => call.result = FALSE)

\* an interval whose upper bound is the true value is found correct
C7_Witness ==
    /\ call.op = "correct"
    /\ call.result = TRUE
    /\ Upper(call.self) = call.answer
    /\ Lower(call.self) < call.answer

\* upper // lower for lower > 0 and upper >= 0: the n with
\* n * lower <= upper < (n + 1) * lower
Quotient(upper, lower) ==
    CHOOSE n \in 0..upper : n * lower <= upper /\ upper < (n + 1) * lower

\* the places of the answers as that are correct for the index-aligned
\* question of QS
CorrectAt(QS, as) == {k \in 1..Len(as) : Contains(as[k], QS[k])}

RECURSIVE Gain(_, _)
\* the sum over the places K of the answers as of (upper // lower - 1)
Gain(as, K) ==
    IF K = {} THEN 0
    ELSE LET k == CHOOSE k \in K : TRUE
         IN  (Quotient(Upper(as[k]), Lower(as[k])) - 1) + Gain(as, K \ {k})

\* no correct answer of the table has the lower bound 0, where
\* upper // lower is not defined
Divisible(QS, ps, ans) ==
    \A i \in 1..Len(ps) : \A k \in CorrectAt(QS, ans[ps[i]]) :
        Lower(ans[ps[i]][k]) > 0

\* the row of player i in the table of the call
RowOf(i) == call.result.rows[i]

Ceiling(upper, lower) ==
    CHOOSE n \in 0..upper : (n - 1) * lower < upper /\ upper <= n * lower

\* C9 as claimed: the score of a correct answer [a, b] is the true ceiling
\* of b / a, so that it adds ceil(b / a) - 1; [50, 210] against 155 scores 5.
C9_ScoreIsCeiling ==
    (call.op = "score" /\ Contains(call.self, call.answer)
     /\ Lower(call.self) > 0) =>
        /\ ~call.result.raised
        /\ call.result.val = Ceiling(Upper(call.self), Lower(call.self))

\* the total score of the player of row i is the least of the table
Least(i) ==
    \A j \in 1..Len(call.result.rows) :
        ~Less(RowOf(j).total_score, RowOf(i).total_score)

\* C10: when the game is finished the winner list is exactly the set of
\* registered players whose total score equals the minimum total score over
\* all registered players: one winner for a unique minimum, every tied
\* player and no one else for a tie, whatever the order of the players;
\* scores 13 and 20 give the player with 13.
C10_WinnersAreLeast ==
    (call.op = "results_card" /\ ~call.result.raised
     /\ game_finished(call.QS, call.question)) =>
        /\ call.result.names_winners
        /\ Keys(call.result.winners)
              = {call.ps[i] : i \in {j \in 1..Len(call.ps) : Least(j)}}
        /\ Cardinality(Keys(call.result.winners)) = Len(call.result.winners)
        /\ \A i \in 1..Len(call.ps) : \A j \in 1..Len(call.ps) :
              (RowOf(i).total_score = Num(13, 1)
               /\ RowOf(j).total_score = Num(20, 1)
               /\ Len(call.ps) = 2)
                 => call.result.winners = <<call.ps[i]>>

\* a finished game of three players: the first and the third tie below the
\* second
C10_Witness ==
    /\ call.op = "results_card"
    /\ ~call.result.raised
    /\ game_finished(call.QS, call.question)
    /\ Len(call.ps) = 3
    /\ Less(RowOf(1).total_score, RowOf(2).total_score)
    /\ Equal(RowOf(1).total_score, RowOf(3).total_score)
    /\ call.result.winners = <<call.ps[1], call.ps[3]>>

(***************************************************************************)
(* Properties of the game.                                                 *)
(***************************************************************************)
\* the players whose joins filled the quota of total_num_players
Quota == {players[i] : i \in 1..total_num_players}

\* the step taken last ended the run of a round's answer past the barrier:
\* a waiter left "while state.answered != ..." (release), or the last
\* submitter left "while state.waiting_finished != ..." and reset (reset)
LeftBarrier == last.op \in {"release", "reset"}

\* the runs suspended in a loop of kind loop
Suspended(loop) == {t \in BagToSet(tasks) : t.loop = loop}

C3_CountersZeroAtRest ==
    (last.op = "reset" \/ Suspended("answers") \cup Suspended("resume") = {})
        => answered = 0 /\ waiting_finished = 0

\* the barrier of round 0 has released and every run has ended
C3_Witness ==
    /\ last.op = "reset"
    /\ question = 1
    /\ tasks = EmptyBag
    /\ \A name \in Quota : Len(answers[name]) = 1

\* C4 as claimed: no client shows a question prompt (and can submit an
\* answer) while the number of registered players differs from
\* total_num_players, and a joiner leaves the admission wait loop only in a
\* state where initialized is true.
C4_AdmissionGate ==
    /\ \A c \in Clients : form[c].card = "question" => initialized(players)
    /\ last.op = "admit" => initialized(players)

\* C5 as claimed: a join with a new name into an initialized session is a
\* no-op, so the number of registered players is at most total_num_players
\* in every reachable state.
C5_NoJoinWhenFull == Len(players) <= total_num_players

\* C6: a join event whose name is already a key of players changes neither
\* the size nor the contents of players (no PlayerInfo is created or reset),
\* in any state and however many times it is repeated.
C6_JoinIdempotent ==
    [][\A c \in Clients : \A text \in Keys(players) :
          Join(c, text) => players' = players /\ answers' = answers]_vars

\* a join with a registered name was handled after a player had recorded an
\* answer
C6_Witness ==
    /\ last.op = "join_known"
    /\ \E name \in Keys(players) : answers[name] # <<>>

(***************************************************************************)
(* The counters and the answer lists.                                      *)
(***************************************************************************)
\* C11: state.answered is between 0 and total_num_players in every reachable
\* state, when a player may answer as soon as a question card is shown to
\* them, a waiter released into the next round while the round's last
\* submitter still polls included
C11_AnsweredInRange == answered \in 0..total_num_players

\* C12: state.waiting_finished is between 0 and total_num_players in every
\* reachable state: the last submitter and each released waiter add one, and
\* the reset comes before the next round's first increment
C12_WaitingFinishedInRange == waiting_finished \in 0..total_num_players

\* some client holds a question card
HoldsPrompt == \E c \in Clients : form[c].card = "question"

\* C13: state.question never exceeds the number of questions, and once it
\* equals that number no client holds a question card (so that no answer
\* increments it further and QUESTIONS[state.question] is never looked up out
\* of range)
C13_QuestionBounded ==
    /\ question <= Len(QUESTIONS)
    /\ question = Len(QUESTIONS) => ~HoldsPrompt

\* C14: every registered player has at most state.question + 1 recorded
\* answers in every reachable state, and exactly state.question right after
\* the last submitter's reset of the two counters
C14_AnswersTrackQuestion ==
    \A name \in Keys(players) :
        /\ Len(answers[name]) <= question + 1
        /\ last.op = "reset" => Len(answers[name]) = question

(***************************************************************************)
(* The branches of a round.                                                *)
(***************************************************************************)
\* an answer is recorded in this step
Answers == answers' # answers

\* the step took the last-submitter branch (lines 267-282)
TakesLastBranch == last'.op \in {"submit_last", "reset"}

\* the answer recorded in this step is the one after which every player of
\* the quota has answered round state.question
CompletesRound ==
    /\ Answers
    /\ Len(players) >= total_num_players
    /\ \A name \in Quota : Len(answers'[name]) > question

\* C15: in a round that every player has answered, the answer that completes
\* the round takes the last-submitter branch and every other answer takes the
\* waiter branch: no such round has zero or two last submitters
C15_OneLastSubmitter ==
    [][Answers => (TakesLastBranch <=> CompletesRound)]_vars

\* a run resets the two counters in this step
Resets == last'.op = "reset"

\* the runs still polling in the answers loop that entered in round r
Waiters(r) == {t \in BagToSet(tasks') : t.loop = "answers" /\ t.round = r}

\* C16: the counters are reset only by the run of a round's last submitter,
\* with state.waiting_finished = total_num_players (its own increment
\* counted), and no waiter of that round is still polling in the answers
\* loop at the reset
C16_ResetAfterWaitersLeft ==
    [][Resets =>
          /\ \/ \E t \in BagToSet(tasks) : t.loop = "resume" /\ t.round = last'.round
             \/ Answers /\ IsLast(answered)
          /\ \/ waiting_finished = total_num_players
             \/ Answers /\ waiting_finished + 1 = total_num_players
          /\ Waiters(last'.round) = {}]_vars

(***************************************************************************)
(* Progress (specification SpecFair) and the frame of the polling loops.   *)
(***************************************************************************)
\* every player of the quota is shown a question card
AllPrompted ==
    /\ Len(players) >= total_num_players
    /\ \A name \in Quota :
          \E c \in Clients : client_name[c] = name /\ form[c].card = "question"

\* C17: when every run is woken again and again and every player answers the
\* question card they hold, the game goes on to its end: once both players
\* hold a question card, state.question reaches the number of questions (no
\* state leaves every run polling for ever)
C17_GameEnds == AllPrompted ~> question = Len(QUESTIONS)

\* client c has a run in the admission loop of lines 232-242
Admitting(c) ==
    \E t \in BagToSet(tasks) : t.loop = "players" /\ t.client = c

\* C18: when every run is woken again and again, a joiner waiting in the
\* admission loop once total_num_players names have joined is shown a question
\* card, whatever joins arrive before its next wake-up
C18_JoinerAdmitted ==
    \A c \in Clients :
        (initialized(players) /\ Admitting(c)) ~> form[c].card = "question"

\* run t wakes in this step and stays in its loop
StaysInLoop(t) == Poll(t) /\ tasks' = tasks

\* C19: a wake-up of a run in any of the three polling loops whose condition
\* to leave is not met changes nothing of the State (players, answers,
\* question, answered, waiting_finished); the State changes only in a join, an
\* answer or the leaving of a loop
C19_PollsOnlyRead ==
    [][/\ \A t \in BagToSet(tasks) : StaysInLoop(t) => state' = state
       /\ state' # state =>
             last'.op \in {"join", "submit", "submit_last", "release", "reset"}
      ]_vars

\* a run woke and stayed in its loop while runs were suspended in each of the
\* three loops
C19_Witness ==
    /\ last.op = "poll"
    /\ \A loop \in {"players", "answers", "resume"} : Suspended(loop) # {}

\* C20: for every answer that Answer.correct accepts (a lower bound of 0 or
\* below included) Answer.score raises nothing and returns at least 1, and
\* every total score of results_card is an integer of at least 10
C20_ScoreDefined ==
    /\ (call.op = "score" /\ Contains(call.self, call.answer)) =>
          /\ ~call.result.raised
          /\ call.result.val >= 1
    /\ call.op = "results_card" =>
          /\ ~call.result.raised
          /\ \A i \in 1..Len(call.result.rows) :
                /\ RowOf(i).total_score.den = 1
                /\ RowOf(i).total_score.num >= 10

====
